---- MODULE Spec2Model ----
(***************************************************************************)
(* Model of electron-reload (src/unnamed/part_000): the dual watch/reset   *)
(* coordination of electronReload(glob, mainFile, options) and the list of *)
(* browser windows it maintains.                                           *)
(*                                                                         *)
(* Paths, globs and argument strings are sequences of one-character        *)
(* strings so that the ignore pattern and the glob are matched, not        *)
(* assumed.  An options object is a function from the property names it    *)
(* carries to their values; an absent property is a name outside DOMAIN.   *)
(***************************************************************************)
EXTENDS Integers, Sequences, FiniteSets, TLC

VARIABLES
    glob,            \* first parameter of electronReload
    mainFile,        \* second parameter of electronReload
    options,         \* third parameter of electronReload
    pc,              \* "start": not yet called, "running": returned, "threw": threw
    watcher,         \* the soft watcher (chokidar.watch(glob, ...))
    hardWatcher,     \* the hard watcher (chokidar.watch(mainFile, ...))
    browserWindows,  \* the maintained list of windows
    winState,        \* host runtime: per window "none" | "open" | "closed"
    closedListeners, \* windows carrying the "closed" listener of line 107
    changes,         \* history of file modifications, change id = index
    pending,         \* change notifications in flight, per watcher
    calls,           \* call log of reloadIgnoringCache, spawn, unref, exit, quit
    proc,            \* "running" | "quitting" | "dead"
    existing,        \* the executables present on disk
    spawnErrors      \* changes whose spawn found no executable to start

vars == <<glob, mainFile, options, pc, watcher, hardWatcher, browserWindows,
          winState, closedListeners, changes, pending, calls, proc,
          existing, spawnErrors>>

\* ------------------------------------------------------------------ bounds
MaxWindows == 2
MaxChanges == 2

Windows == 1..MaxWindows

\* ------------------------------------------------------- paths and strings
NodeModulesStr == <<"n","o","d","e","_","m","o","d","u","l","e","s">>

MainPath     == <<"a","/","m",".","j","s">>
RendererPath == <<"a","/","r",".","j","s">>
DepPath      == <<"a","/">> \o NodeModulesStr \o <<"/","d",".","j","s">>
DotPath      == <<"a","/",".","h",".","j","s">>

Files == {MainPath, RendererPath, DepPath, DotPath}

\* "a/*.js" matches the entry-point file, "a/r*" does not
GlobAll      == <<"a","/","*",".","j","s">>
GlobRenderer == <<"a","/","r","*">>

GoodExe    == "electron"
MissingExe == "missing"
\* the executables present when the program starts
ExistingFiles == {GoodExe}

appPath == "approot"

SubSeqAt(s, i, t) ==
    /\ i + Len(t) - 1 <= Len(s)
    /\ \A k \in 1..Len(t) : s[i + k - 1] = t[k]

Contains(s, t) == \E i \in 1..Len(s) : SubSeqAt(s, i, t)

\* const ignoredPaths = /node_modules|[/\\]\./
ignoredPathsTest(path) ==
    \/ Contains(path, NodeModulesStr)
    \/ \E i \in 1..(Len(path) - 1) : path[i] \in {"/", "\\"} /\ path[i + 1] = "."

\* a path pattern with at most one wildcard, which stands for any characters
GlobMatch(pattern, path) ==
    IF \E i \in 1..Len(pattern) : pattern[i] = "*"
    THEN LET i == CHOOSE j \in 1..Len(pattern) : pattern[j] = "*"
             pre == SubSeq(pattern, 1, i - 1)
             suf == SubSeq(pattern, i + 1, Len(pattern))
         IN  /\ Len(path) >= Len(pre) + Len(suf)
             /\ SubSeqAt(path, 1, pre)
             /\ SubSeqAt(path, Len(path) - Len(suf) + 1, suf)
    ELSE pattern = path

\* the matchers of an `ignored` array
ignoredPaths == [kind |-> "regexp", pat |-> <<>>]
StringMatcher(p) == [kind |-> "string", pat |-> p]

MatcherTest(m, path) ==
    IF m.kind = "regexp" THEN ignoredPathsTest(path) ELSE GlobMatch(m.pat, path)

IsIgnored(ignored, path) == \E i \in 1..Len(ignored) : MatcherTest(ignored[i], path)

\* ------------------------------------------------------------ JS objects
Has(o, k) == k \in DOMAIN o

\* Object.assign(target, source): every own property of source overwrites
ObjectAssign(target, source) ==
    [k \in (DOMAIN target) \cup (DOMAIN source) |->
        IF k \in DOMAIN source THEN source[k] ELSE target[k]]

EmptyObject == [k \in {} |-> 0]

Prop(k, vals) == {EmptyObject} \cup {[x \in {k} |-> v] : v \in vals}

\* const executable = options.electron; if (executable) / if (!executable)
executableTruthy(opts) == Has(opts, "electron") /\ opts["electron"] # ""

\* fs.existsSync(path)
existsSync(path) == path \in existing

\* (eArgv || [])
OrEmpty(opts, k) == IF Has(opts, k) THEN opts[k] ELSE <<>>

\* ------------------------------------------------------------- watchers
NoWatcher == [created |-> FALSE, paths |-> <<>>, ignored |-> <<>>,
              closed |-> FALSE, listeners |-> <<>>]

\* chokidar.watch(paths, opts)
ChokidarWatch(path, opts) ==
    [created |-> TRUE, paths |-> <<path>>,
     ignored |-> OrEmpty(opts, "ignored"),
     closed |-> FALSE, listeners |-> <<>>]

WatcherAdd(w, path) == [w EXCEPT !.paths = Append(@, path)]
\* close() that leaves the watcher running
WatcherClose_Noop(w) == w

WatcherClose(w) == [w EXCEPT !.closed = TRUE, !.listeners = <<>>]
\* on() registered as a one-shot listener
WatcherOn_AsOnce(w, handler) ==
    [w EXCEPT !.listeners = Append(@, [once |-> TRUE, handler |-> handler])]

WatcherOn(w, handler) ==
    [w EXCEPT !.listeners = Append(@, [once |-> FALSE, handler |-> handler])]
\* once() registered as a continuous listener
WatcherOnce_AsOn(w, handler) ==
    [w EXCEPT !.listeners = Append(@, [once |-> FALSE, handler |-> handler])]

WatcherOnce(w, handler) ==
    [w EXCEPT !.listeners = Append(@, [once |-> TRUE, handler |-> handler])]

\* does a modification of path reach the watcher's "change" listeners
Watches(w, path) ==
    /\ w.created
    /\ ~w.closed
    /\ \E i \in 1..Len(w.paths) : GlobMatch(w.paths[i], path)
    /\ ~IsIgnored(w.ignored, path)

\* ------------------------------------------------------------- call log
Call(op, c, w, args) == [op |-> op, change |-> c, win |-> w, args |-> args]

\* a forEach that starts at index 1 and so misses the first window
ForEachReload_SkipFirst(list, c) ==
    [i \in 1..(Len(list) - 1) |-> Call("reloadIgnoringCache", c, list[i + 1], <<>>)]

\* browserWindows.forEach((bw) => bw.webContents.reloadIgnoringCache())
RECURSIVE ForEachReload(_, _)
ForEachReload(list, c) ==
    IF list = <<>> THEN <<>>
    ELSE <<Call("reloadIgnoringCache", c, Head(list), <<>>)>>
         \o ForEachReload(Tail(list), c)

\* the soft reset callback, run for change c
softResetHandler(c) ==
    <<Call("softResetHandler", c, 0, <<>>)>> \o ForEachReload(browserWindows, c)

\* the application arguments put before the application root path
RelaunchArgs_AppArgvFirst(opts) ==
    OrEmpty(opts, "electronArgv") \o OrEmpty(opts, "appArgv") \o <<appPath>>

\* (eArgv || []).concat([appPath]).concat(aArgv || [])
RelaunchArgs(opts) ==
    OrEmpty(opts, "electronArgv") \o <<appPath>> \o OrEmpty(opts, "appArgv")

\* the test turned round: quit only for "quit", exit for everything else
Terminate_ExitUnlessQuit(opts, c) ==
    IF Has(opts, "hardResetMethod") /\ opts["hardResetMethod"] = "quit"
    THEN <<Call("quit", c, 0, <<>>)>>
    ELSE <<Call("exit", c, 0, <<>>)>>

\* if (hardResetMethod === "exit") app.exit(); else app.quit();
Terminate(opts, c) ==
    IF Has(opts, "hardResetMethod") /\ opts["hardResetMethod"] = "exit"
    THEN <<Call("exit", c, 0, <<>>)>>
    ELSE <<Call("quit", c, 0, <<>>)>>

\* the hard reset with the process terminated before the spawn
createHardResetHandler_TerminateFirst(opts, c) ==
    <<Call("hardResetHandler", c, 0, <<>>)>> \o
    ( IF ~executableTruthy(opts) THEN <<>>
      ELSE Terminate(opts, c) \o
           <<Call("spawn", c, 0, RelaunchArgs(opts)),
             Call("unref", c, 0, <<>>)>> )

\* a hard reset that gives up when the executable is gone at spawn time
createHardResetHandler_StopOnSpawnFailure(opts, c) ==
    <<Call("hardResetHandler", c, 0, <<>>)>> \o
    ( IF ~executableTruthy(opts) THEN <<>>
      ELSE IF ~existsSync(opts["electron"])
           THEN <<Call("spawn", c, 0, RelaunchArgs(opts))>>
           ELSE <<Call("spawn", c, 0, RelaunchArgs(opts)),
                  Call("unref", c, 0, <<>>)>> \o Terminate(opts, c) )

\* the callback made by createHardResetHandler, run for change c
createHardResetHandler(opts, c) ==
    <<Call("hardResetHandler", c, 0, <<>>)>> \o
    ( IF ~executableTruthy(opts) THEN <<>>
      ELSE <<Call("spawn", c, 0, RelaunchArgs(opts)),
             Call("unref", c, 0, <<>>)>> \o Terminate(opts, c) )

hardResetHandler(c) == createHardResetHandler(options, c)

\* the soft reset falling through into the hard reset
HandlerCalls_FallThrough(h, c) ==
    IF h = "softResetHandler" THEN softResetHandler(c) \o hardResetHandler(c)
    ELSE hardResetHandler(c)

HandlerCalls(h, c) ==
    IF h = "softResetHandler" THEN softResetHandler(c) ELSE hardResetHandler(c)

HasOp(cs, op) == \E i \in 1..Len(cs) : cs[i].op = op

\* emit("change"): the listeners run in registration order; app.exit() ends
\* the process, so a listener after it is not run
RECURSIVE RunListeners(_, _)
RunListeners(ls, c) ==
    IF ls = <<>> THEN <<>>
    ELSE LET first == HandlerCalls(Head(ls).handler, c)
         IN  IF HasOp(first, "exit") THEN first
             ELSE first \o RunListeners(Tail(ls), c)

\* an emit that drops every listener, as if all were one-shot
AfterEmit_DropAll(ls) == <<>>

\* the listeners left after an emit: a once listener is removed
RECURSIVE AfterEmit(_)
AfterEmit(ls) ==
    IF ls = <<>> THEN <<>>
    ELSE IF Head(ls).once THEN AfterEmit(Tail(ls))
         ELSE <<Head(ls)>> \o AfterEmit(Tail(ls))

\* spawn(executable, ...) of a file that is not there returns a child all
\* the same and reports the failure later, on the child's "error" event
SpawnFails(cs) == HasOp(cs, "spawn") /\ ~existsSync(options["electron"])

\* the process after a batch of calls: exit is immediate, quit is requested
ProcAfter(p, cs) ==
    IF HasOp(cs, "exit") THEN "dead"
    ELSE IF HasOp(cs, "quit") THEN "quitting"
    ELSE p

\* ------------------------------------------------------- window registry
\* browserWindows.indexOf(bw), 0-based, -1 when absent
indexOf(list, bw) ==
    IF \E i \in 1..Len(list) : list[i] = bw
    THEN (CHOOSE i \in 1..Len(list) :
              list[i] = bw /\ \A j \in 1..(i - 1) : list[j] # bw) - 1
    ELSE -1

\* browserWindows.splice(i, 1): a negative i counts from the end
splice1(list, i) ==
    LET n == Len(list)
        start == IF i < 0 THEN (IF n + i < 0 THEN 0 ELSE n + i)
                 ELSE (IF i > n THEN n ELSE i)
    IN  IF start >= n THEN list
        ELSE SubSeq(list, 1, start) \o SubSeq(list, start + 2, n)

\* splice(i) without the delete count: everything from i on is removed
closedHandler_NoCount(list, bw) ==
    IF indexOf(list, bw) < 0 THEN SubSeq(list, 1, Len(list) - 1)
    ELSE SubSeq(list, 1, indexOf(list, bw))

\* the "closed" listener of a window
closedHandler(list, bw) == splice1(list, indexOf(list, bw))

\* ----------------------------------------------------------------- setup
softDefaults(mf) == [ignored |-> <<ignoredPaths, StringMatcher(mf)>>]
hardDefaults == [ignored |-> <<ignoredPaths>>]

forceHardResetIsTrue(opts) ==
    Has(opts, "forceHardReset") /\ opts["forceHardReset"] = TRUE

\* lines 84-87 and 114: the soft watcher with its change listener
SoftWatcherSetup(gl, mf, opts) ==
    WatcherOn(ChokidarWatch(gl, ObjectAssign(softDefaults(mf), opts)),
              "softResetHandler")

\* the hard watcher set up without the `if (executable)` guard
HardSetup_NoGuard(gl, mf, opts, soft) ==
    LET hw == ChokidarWatch(mf, ObjectAssign(hardDefaults, opts))
    IN  IF forceHardResetIsTrue(opts)
        THEN [watcher |-> WatcherClose(soft),
              hardWatcher |-> WatcherOnce(WatcherAdd(hw, gl), "hardResetHandler")]
        ELSE [watcher |-> soft,
              hardWatcher |-> WatcherOnce(hw, "hardResetHandler")]

\* the forceHardReset test hoisted out of the `if (executable)` block: the
\* soft watcher is closed whenever forceHardReset is true
HardSetup_ForceOutsideGuard(gl, mf, opts, soft) ==
    LET s == IF forceHardResetIsTrue(opts) THEN WatcherClose(soft) ELSE soft
    IN  IF ~executableTruthy(opts)
        THEN [watcher |-> s, hardWatcher |-> NoWatcher]
        ELSE LET hw == ChokidarWatch(mf, ObjectAssign(hardDefaults, opts))
             IN  IF forceHardResetIsTrue(opts)
                 THEN [watcher |-> s,
                       hardWatcher |-> WatcherOnce(WatcherAdd(hw, gl), "hardResetHandler")]
                 ELSE [watcher |-> s,
                       hardWatcher |-> WatcherOnce(hw, "hardResetHandler")]

\* lines 118-138 once the executable was found: both watchers
HardSetup(gl, mf, opts, soft) ==
    IF ~executableTruthy(opts)
    THEN [watcher |-> soft, hardWatcher |-> NoWatcher]
    ELSE LET hw == ChokidarWatch(mf, ObjectAssign(hardDefaults, opts))
         IN  IF forceHardResetIsTrue(opts)
             THEN [watcher |-> WatcherClose(soft),
                   hardWatcher |-> WatcherOnce(WatcherAdd(hw, gl), "hardResetHandler")]
             ELSE [watcher |-> soft,
                   hardWatcher |-> WatcherOnce(hw, "hardResetHandler")]

\* the throw of lines 119-123
SetupThrows(opts) == executableTruthy(opts) /\ ~existsSync(opts["electron"])

\* ------------------------------------------------------------------ Init
Globs == {GlobAll, GlobRenderer}

ElectronVals       == {GoodExe, MissingExe}
ElectronArgvVals   == {<<>>, <<"e1">>, <<"e1", "e2">>}
AppArgvVals        == {<<>>, <<"a1">>, <<"a1", "a2">>}
HardResetMethods   == {"exit", "quit"}
HardResetMethodsCoord == {"exit"}
ForceVals          == {TRUE, FALSE}
IgnoredVals        == {<<>>, <<StringMatcher(MainPath)>>}

\* the configurations of the coordination: the watch options and the reset
\* options that decide which watcher exists and whether the process ends at
\* once (an absent hardResetMethod takes the quit branch)
OptionSet ==
    { e @@ m @@ f @@ ig :
        e  \in Prop("electron", ElectronVals),
        m  \in Prop("hardResetMethod", HardResetMethodsCoord),
        f  \in Prop("forceHardReset", ForceVals),
        ig \in Prop("ignored", IgnoredVals) }

Init ==
    /\ glob \in Globs
    /\ mainFile = MainPath
    /\ options \in OptionSet
    /\ pc = "start"
    /\ watcher = NoWatcher
    /\ hardWatcher = NoWatcher
    /\ browserWindows = <<>>
    /\ winState = [w \in Windows |-> "none"]
    /\ closedListeners = {}
    /\ changes = <<>>
    /\ pending = {}
    /\ calls = <<>>
    /\ proc = "running"
    /\ existing = ExistingFiles
    /\ spawnErrors = {}

\* --------------------------------------------------------------- actions
\* electronReload(glob, mainFile, options), lines 78-139
electronReload ==
    /\ pc = "start"
    /\ proc # "dead"
    /\ LET soft == SoftWatcherSetup(glob, mainFile, options)
       IN  IF SetupThrows(options)
           THEN /\ pc' = "threw"
                /\ watcher' = soft
                /\ hardWatcher' = hardWatcher
           ELSE LET r == HardSetup(glob, mainFile, options, soft)
                IN  /\ pc' = "running"
                    /\ watcher' = r.watcher
                    /\ hardWatcher' = r.hardWatcher
    /\ UNCHANGED <<existing, spawnErrors, glob, mainFile, options, browserWindows, winState,
                   closedListeners, changes, pending, calls, proc>>

\* the host emits "browser-window-created" to the listener of line 103,
\* which exists once electronReload has run up to it (also when it threw)
WindowCreated(w) ==
    /\ proc # "dead"
    /\ winState[w] = "none"
    /\ \A v \in Windows : v < w => winState[v] # "none"
    /\ winState' = [winState EXCEPT ![w] = "open"]
    /\ pc # "start"
    /\ browserWindows' = Append(browserWindows, w)
    /\ closedListeners' = closedListeners \cup {w}
    /\ UNCHANGED <<existing, spawnErrors, glob, mainFile, options, pc, watcher, hardWatcher,
                   changes, pending, calls, proc>>

\* a window emits "closed", once
WindowClosed(w) ==
    /\ proc # "dead"
    /\ winState[w] = "open"
    /\ winState' = [winState EXCEPT ![w] = "closed"]
    /\ browserWindows' = IF w \in closedListeners
                         THEN closedHandler(browserWindows, w)
                         ELSE browserWindows
    /\ UNCHANGED <<existing, spawnErrors, glob, mainFile, options, pc, watcher, hardWatcher,
                   closedListeners, changes, pending, calls, proc>>

WatcherNamed(n) == IF n = "watcher" THEN watcher ELSE hardWatcher

\* a file is modified: every watcher it reaches has a notification in flight
FileChange(f) ==
    /\ proc # "dead"
    /\ pc # "start"
    /\ Len(changes) < MaxChanges
    /\ changes' = Append(changes, f)
    /\ pending' = pending \cup
          {[w |-> n, change |-> Len(changes) + 1] :
              n \in {x \in {"watcher", "hardWatcher"} : Watches(WatcherNamed(x), f)}}
    /\ UNCHANGED <<existing, spawnErrors, glob, mainFile, options, pc, watcher, hardWatcher,
                   browserWindows, winState, closedListeners, calls, proc>>

\* a watcher emits "change" for a notification in flight; one watcher emits
\* its notifications in the order of the modifications
Emit(n) ==
    /\ proc # "dead"
    /\ n \in pending
    /\ \A m \in pending : m.w = n.w => m.change >= n.change
    /\ pending' = pending \ {n}
    /\ LET w  == WatcherNamed(n.w)
           cs == IF w.closed THEN <<>> ELSE RunListeners(w.listeners, n.change)
           after == IF w.closed THEN w
                    ELSE [w EXCEPT !.listeners = AfterEmit(@)]
       IN  /\ calls' = calls \o cs
           /\ proc' = ProcAfter(proc, cs)
           /\ spawnErrors' = IF SpawnFails(cs) THEN spawnErrors \cup {n.change}
                             ELSE spawnErrors
           /\ IF n.w = "watcher"
              THEN watcher' = after /\ hardWatcher' = hardWatcher
              ELSE hardWatcher' = after /\ watcher' = watcher
    /\ UNCHANGED <<existing, glob, mainFile, options, pc, browserWindows,
                   winState, closedListeners, changes>>

\* app.quit() was requested and the application lets the process end
ProcessQuits ==
    /\ proc = "quitting"
    /\ proc' = "dead"
    /\ UNCHANGED <<existing, spawnErrors, glob, mainFile, options, pc, watcher, hardWatcher,
                   browserWindows, winState, closedListeners, changes,
                   pending, calls>>

Next ==
    \/ electronReload
    \/ \E w \in Windows : WindowCreated(w)
    \/ \E w \in Windows : WindowClosed(w)
    \/ \E f \in Files : FileChange(f)
    \/ \E n \in pending : Emit(n)
    \/ ProcessQuits

Spec == Init /\ [][Next]_vars

\* the "closed" listener is attached with on(), not once(): it stays on the
\* window and runs again for every further "closed" the window emits
WindowClosedAgain(w) ==
    /\ proc # "dead"
    /\ w \in closedListeners
    /\ winState[w] = "closed"
    /\ browserWindows' = closedHandler(browserWindows, w)
    /\ browserWindows' # browserWindows
    /\ UNCHANGED <<existing, spawnErrors, glob, mainFile, options, pc, watcher, hardWatcher, winState,
                   closedListeners, changes, pending, calls, proc>>

NextReemit ==
    \/ Next
    \/ \E w \in Windows : WindowClosedAgain(w)

\* the coordination with windows that may emit "closed" more than once
SpecReemit == Init /\ [][NextReemit]_vars

\* the relaunch executable is removed after setup has found it
ExecutableDisappears ==
    /\ proc # "dead"
    /\ pc = "running"
    /\ executableTruthy(options)
    /\ existsSync(options["electron"])
    /\ existing' = existing \ {options["electron"]}
    /\ UNCHANGED <<spawnErrors, glob, mainFile, options, pc, watcher,
                   hardWatcher, browserWindows, winState, closedListeners,
                   changes, pending, calls, proc>>

NextRace ==
    \/ Next
    \/ ExecutableDisappears

\* the coordination with an executable that may vanish after setup
SpecRace == Init /\ [][NextRace]_vars

\* the configurations of the hard reset handler: the relaunch argument lists
\* and every hardResetMethod, with the executable found
OptionSetArgv ==
    { [electron |-> GoodExe] @@ ea @@ aa @@ m :
        ea \in Prop("electronArgv", ElectronArgvVals),
        aa \in Prop("appArgv", AppArgvVals),
        m  \in Prop("hardResetMethod", HardResetMethods) }

InitArgv ==
    /\ glob = GlobAll
    /\ mainFile = MainPath
    /\ options \in OptionSetArgv
    /\ pc = "start"
    /\ watcher = NoWatcher
    /\ hardWatcher = NoWatcher
    /\ browserWindows = <<>>
    /\ winState = [w \in Windows |-> "none"]
    /\ closedListeners = {}
    /\ changes = <<>>
    /\ pending = {}
    /\ calls = <<>>
    /\ proc = "running"
    /\ existing = ExistingFiles
    /\ spawnErrors = {}

SpecArgv == InitArgv /\ [][Next]_vars

\* ------------------------------------------------------------ vocabulary
Count(op, c) ==
    Cardinality({i \in DOMAIN calls : calls[i].op = op /\ calls[i].change = c})

Total(op) == Cardinality({i \in DOMAIN calls : calls[i].op = op})

Terminations(c) == Count("exit", c) + Count("quit", c)

\* every notification of change c has been emitted
Delivered(c) == \A n \in pending : n.change # c

ExeConfigured == executableTruthy(options) /\ existsSync(options["electron"])

SplitMode == pc = "running" /\ ExeConfigured /\ ~forceHardResetIsTrue(options)
ForceMode == pc = "running" /\ ExeConfigured /\ forceHardResetIsTrue(options)

Range(s) == {s[i] : i \in DOMAIN s}

\* ---------------------------------------------------------------- claims

\* C1: with an executable configured and found and forceHardReset not true,
\* whatever passthrough watch options the caller gave, a change of the
\* entry-point file that the hard watcher watches runs no soft reset for that change and, once delivered,
\* has produced exactly one hard reset (one spawn, one termination call).
C1_EntryChangeHardOnly ==
    SplitMode =>
        \A c \in DOMAIN changes :
            (changes[c] = mainFile /\ Watches(hardWatcher, mainFile)) =>
                /\ Count("softResetHandler", c) = 0
                /\ Delivered(c) => /\ Total("spawn") = 1
                                   /\ Total("exit") + Total("quit") = 1
                                   /\ Count("spawn", c) <= 1

\* C2: with an executable configured and found and forceHardReset not true,
\* every delivered change of a soft-watched file other than the entry-point
\* file has run the soft reset exactly once and no part of a hard reset,
\* wherever the change falls in the sequence of changes.
C2_OtherChangeSoftOnly ==
    SplitMode =>
        \A c \in DOMAIN changes :
            ( /\ changes[c] # mainFile
              /\ Watches(watcher, changes[c])
              /\ Delivered(c) ) =>
                /\ Count("softResetHandler", c) = 1
                /\ Count("hardResetHandler", c) = 0
                /\ Count("spawn", c) = 0
                /\ Terminations(c) = 0

\* a second change, of a file other than the entry point, got its soft
\* reset after a hard reset had already been fired by the first change
C2_Witness ==
    /\ SplitMode
    /\ Len(changes) = 2
    /\ changes[1] = mainFile
    /\ changes[2] = RendererPath
    /\ Total("spawn") = 1
    /\ Delivered(2)
    /\ Count("softResetHandler", 2) = 1

\* C3: with forceHardReset true and an executable configured and found, the
\* soft watcher is closed and the soft reset never runs, and once a change
\* of any file the hard watcher watches (entry point or glob-matched) has
\* been delivered exactly one hard reset has happened: one spawn and one
\* termination call.
C3_ForceHardOnly ==
    ForceMode =>
        /\ watcher.closed
        /\ Total("softResetHandler") = 0
        /\ Total("reloadIgnoringCache") = 0
        /\ \A c \in DOMAIN changes :
              (Watches(hardWatcher, changes[c]) /\ Delivered(c)) =>
                  /\ Total("spawn") = 1
                  /\ Total("exit") + Total("quit") = 1

\* the hard reset was fired by a glob-matched file that is not the entry point
C3_Witness ==
    /\ ForceMode
    /\ \E c \in DOMAIN changes :
          /\ changes[c] = RendererPath
          /\ Count("spawn", c) = 1
          /\ Terminations(c) = 1
    /\ \E w \in Windows : winState[w] = "open" /\ w \in closedListeners

\* C4: after setup threw for an executable that does not exist, no watcher
\* is left with a change listener and no reset has run.
C4_ThrowLeavesNoWatcher ==
    pc = "threw" =>
        /\ ~Has(options, "electron") \/ ~existsSync(options["electron"])
        /\ ~(watcher.created /\ ~watcher.closed /\ watcher.listeners # <<>>)
        /\ ~hardWatcher.created
        /\ Total("softResetHandler") = 0
        /\ Total("hardResetHandler") = 0

\* C5: once the window-created listener is registered, the maintained list
\* holds exactly the windows whose creation it saw and that have not closed,
\* each once.
C5_RegistryIsOpenWindows ==
    /\ Range(browserWindows) = {w \in closedListeners : winState[w] = "open"}
    /\ Len(browserWindows) = Cardinality(Range(browserWindows))

\* the first window closed while a later one stays open and tracked
C5_Witness ==
    /\ 1 \in closedListeners
    /\ winState[1] = "closed"
    /\ browserWindows = <<2>>

\* C6: the emit of a soft-watch change notification runs the soft reset
\* once, and that run calls reloadIgnoringCache exactly once on every window
\* in the list at that moment, on no other window and on no closed window.
C6_BroadcastReachesTracked ==
    [][ \A n \in pending :
          (n.w = "watcher" /\ n \notin pending' /\ ~watcher.closed) =>
              LET new == SubSeq(calls', Len(calls) + 1, Len(calls'))
                  reloads(w) == Cardinality({i \in DOMAIN new :
                                    /\ new[i].op = "reloadIgnoringCache"
                                    /\ new[i].win = w})
              IN  /\ Cardinality({i \in DOMAIN new :
                                     new[i].op = "softResetHandler"}) = 1
                  /\ \A i \in DOMAIN new : new[i].change = n.change
                  /\ \A w \in Windows :
                        reloads(w) = IF w \in Range(browserWindows) THEN 1 ELSE 0
                  /\ \A w \in Windows : winState[w] = "closed" => reloads(w) = 0
      ]_vars

\* a broadcast reloaded the second window after the first, tracked one closed
C6_Witness ==
    /\ 1 \in closedListeners
    /\ winState[1] = "closed"
    /\ \E i \in DOMAIN calls :
          /\ calls[i].op = "reloadIgnoringCache"
          /\ calls[i].win = 2
          /\ Count("reloadIgnoringCache", calls[i].change) = 1

\* C7: without a relaunch executable no hard watcher is created and spawn,
\* exit and quit are never called, whatever files change and whatever
\* forceHardReset and hardResetMethod are.
C7_NoExecutableNoHardReset ==
    ~executableTruthy(options) =>
        /\ ~hardWatcher.created
        /\ Total("hardResetHandler") = 0
        /\ Total("spawn") = 0
        /\ Total("exit") = 0
        /\ Total("quit") = 0

\* no executable, forceHardReset true, and the entry-point file changed twice
C7_Witness ==
    /\ ~executableTruthy(options)
    /\ forceHardResetIsTrue(options)
    /\ Has(options, "hardResetMethod")
    /\ pc = "running"
    /\ changes = <<mainFile, mainFile>>
    /\ pending = {}

\* C8: every call of exit or quit comes right after the unref of the child
\* that the same hard reset spawned: spawn, then unref, then termination.
C8_SpawnBeforeTerminate ==
    \A i \in DOMAIN calls :
        calls[i].op \in {"exit", "quit"} =>
            /\ i >= 3
            /\ calls[i - 1].op = "unref"
            /\ calls[i - 2].op = "spawn"
            /\ calls[i - 1].change = calls[i].change
            /\ calls[i - 2].change = calls[i].change

\* a hard reset has run to its termination call
C8_Witness ==
    /\ Total("spawn") = 1
    /\ Total("unref") = 1
    /\ Total("exit") + Total("quit") = 1

\* C9: the hard reset handler runs at most once: at most one spawn and one
\* termination call over any sequence of changes, also while the process
\* lives on after quit.
C9_HardResetAtMostOnce ==
    /\ Total("hardResetHandler") <= 1
    /\ Total("spawn") <= 1
    /\ Total("exit") + Total("quit") <= 1

\* two changes were delivered to the hard watcher, the process still lives
C9_Witness ==
    /\ Len(changes) = 2
    /\ \A c \in DOMAIN changes : Watches(hardWatcher, changes[c]) /\ Delivered(c)
    /\ Count("spawn", 1) = 1
    /\ Total("quit") = 1
    /\ proc = "quitting"

\* C10: the arguments of spawn are electronArgv, then the application root
\* path, then appArgv, an absent list counting as empty.
C10_RelaunchArguments ==
    \A i \in DOMAIN calls :
        calls[i].op = "spawn" =>
            LET args == calls[i].args
                ne   == IF Has(options, "electronArgv")
                        THEN Len(options["electronArgv"]) ELSE 0
                na   == IF Has(options, "appArgv")
                        THEN Len(options["appArgv"]) ELSE 0
            IN  /\ Len(args) = ne + 1 + na
                /\ \A k \in 1..ne : args[k] = options["electronArgv"][k]
                /\ args[ne + 1] = appPath
                /\ \A k \in 1..na : args[ne + 1 + k] = options["appArgv"][k]

\* a spawn with both lists given and of different lengths
C10_Witness ==
    /\ Has(options, "electronArgv") /\ Len(options["electronArgv"]) = 2
    /\ Has(options, "appArgv") /\ Len(options["appArgv"]) = 1
    /\ Total("spawn") = 1

\* a spawn with both lists absent
C10_WitnessAbsent ==
    /\ ~Has(options, "electronArgv")
    /\ ~Has(options, "appArgv")
    /\ \E i \in DOMAIN calls : calls[i].op = "spawn" /\ calls[i].args = <<appPath>>

\* C11: a hard reset calls exactly one termination primitive: exit when
\* hardResetMethod is "exit", quit for every other value and when it is
\* absent, never both.
C11_OneTerminationByMethod ==
    \A c \in DOMAIN changes :
        Count("spawn", c) = 1 =>
            IF Has(options, "hardResetMethod") /\ options["hardResetMethod"] = "exit"
            THEN Count("exit", c) = 1 /\ Count("quit", c) = 0
            ELSE Count("quit", c) = 1 /\ Count("exit", c) = 0

\* a hard reset with hardResetMethod absent has called quit
C11_Witness ==
    /\ ~Has(options, "hardResetMethod")
    /\ Total("spawn") = 1
    /\ Total("quit") = 1

\* C12: a window's closed event removes that window from the list and no
\* other: a window leaves the list only in the step of its own closing,
\* whatever the list holds then, also when the closing window is not in it.
C12_CloseRemovesOnlyThatWindow ==
    [][ /\ \A w \in Range(browserWindows) \ Range(browserWindows') :
              winState[w] = "open" /\ winState'[w] = "closed"
        /\ \A w \in Windows :
              (winState[w] = "open" /\ winState'[w] = "closed") =>
                  w \notin Range(browserWindows')
      ]_vars

\* C13: whatever watch options the caller gave, the entry-point file is
\* outside the soft watcher's scope: a change of it puts no soft-watch
\* notification in flight and runs no soft reset, and without a relaunch
\* executable it produces no call at all.
C13_EntryOutsideSoftScope ==
    \A c \in DOMAIN changes :
        changes[c] = mainFile =>
            /\ [w |-> "watcher", change |-> c] \notin pending
            /\ Count("softResetHandler", c) = 0
            /\ ~executableTruthy(options) =>
                  \A i \in DOMAIN calls : calls[i].change # c

\* the soft watcher is open and carries the soft reset listener
SoftSubscribed(w) ==
    /\ w.created
    /\ ~w.closed
    /\ \E i \in DOMAIN w.listeners : w.listeners[i].handler = "softResetHandler"

\* C14: the soft-watch subscription is continuous: no step after setup
\* retires it (no soft reset, no hard reset, no window event), and while it
\* is open every emitted soft-watch notification runs the soft reset.
C14_SoftSubscriptionContinuous ==
    [][ /\ SoftSubscribed(watcher) => SoftSubscribed(watcher')
        /\ \A n \in pending :
              (n.w = "watcher" /\ n \notin pending' /\ SoftSubscribed(watcher)) =>
                  /\ Len(calls') > Len(calls)
                  /\ calls'[Len(calls) + 1] = Call("softResetHandler", n.change, 0, <<>>)
      ]_vars

\* two soft-watch notifications in a row each ran the soft reset, a hard
\* reset was fired meanwhile, and the subscription is still there
C14_Witness ==
    /\ SplitMode
    /\ Len(changes) = 2
    /\ Count("softResetHandler", 1) = 1
    /\ Count("softResetHandler", 2) = 1
    /\ Total("spawn") = 1
    /\ SoftSubscribed(watcher)

\* C15: when the executable is gone by the time the hard reset fires and the
\* spawn fails, the handler still goes on to unref and to the termination
\* call of the configured method.
C15_TerminationAfterFailedSpawn ==
    \A i \in DOMAIN calls :
        (calls[i].op = "spawn" /\ calls[i].change \in spawnErrors) =>
            /\ i + 2 <= Len(calls)
            /\ calls[i + 1].op = "unref"
            /\ calls[i + 2].op \in {"exit", "quit"}
            /\ calls[i + 2].change = calls[i].change

\* setup found the executable, it vanished, and the hard reset fired
C15_Witness ==
    /\ pc = "running"
    /\ spawnErrors # {}
    /\ ~existsSync(options["electron"])
    /\ Total("exit") + Total("quit") = 1

\* the options without the forceHardReset property
WithoutForce(opts) == [k \in (DOMAIN opts) \ {"forceHardReset"} |-> opts[k]]

\* C16: with forceHardReset true and no relaunch executable the coordinator
\* is the one of the same options without forceHardReset: the same open soft
\* watcher, no hard watcher, one soft reset for every delivered change that
\* soft-only watcher watches and none for any other, and never a hard reset.
C16_ForceWithoutExecutableIsSoftOnly ==
    (pc = "running" /\ ~executableTruthy(options) /\ forceHardResetIsTrue(options)) =>
        LET plain   == WithoutForce(options)
            softOnly == HardSetup(glob, mainFile, plain,
                                  SoftWatcherSetup(glob, mainFile, plain))
        IN  /\ ~watcher.closed
            /\ watcher = softOnly.watcher
            /\ hardWatcher = softOnly.hardWatcher
            /\ \A c \in DOMAIN changes :
                  Delivered(c) =>
                      Count("softResetHandler", c) =
                          IF Watches(softOnly.watcher, changes[c]) THEN 1 ELSE 0
            /\ \A i \in DOMAIN calls :
                  calls[i].op \in {"softResetHandler", "reloadIgnoringCache"}

\* forceHardReset true without an executable: a renderer change broadcast
\* to an open window, an entry-point change did nothing
C16_Witness ==
    /\ pc = "running"
    /\ ~executableTruthy(options)
    /\ forceHardResetIsTrue(options)
    /\ changes = <<RendererPath, mainFile>>
    /\ pending = {}
    /\ Count("softResetHandler", 1) = 1
    /\ Count("reloadIgnoringCache", 1) = 1
    /\ Count("softResetHandler", 2) = 0

\* C17: a soft reset leaves the window list and the process alone and calls
\* no spawn, unref, exit or quit; a hard reset calls no reload and leaves
\* the window list alone; the list changes only in a step of a window's
\* creation or closing.
C17_ResetsLeaveRegistryAlone ==
    [][ LET new == SubSeq(calls', Len(calls) + 1, Len(calls'))
        IN  /\ HasOp(new, "softResetHandler") =>
                  /\ browserWindows' = browserWindows
                  /\ proc' = proc
                  /\ \A i \in DOMAIN new :
                        new[i].op \in {"softResetHandler", "reloadIgnoringCache"}
            /\ HasOp(new, "hardResetHandler") =>
                  /\ browserWindows' = browserWindows
                  /\ \A i \in DOMAIN new :
                        new[i].op \in {"hardResetHandler", "spawn", "unref",
                                       "exit", "quit"}
            /\ browserWindows' # browserWindows =>
                  /\ calls' = calls
                  /\ \E w \in Windows : winState'[w] # winState[w]
      ]_vars

\* a soft reset reloaded a window and a hard reset ran, the window is
\* still in the list
C17_Witness ==
    /\ Total("reloadIgnoringCache") >= 1
    /\ Total("spawn") = 1
    /\ browserWindows # <<>>

====
